---- MODULE Spec2Model ----
(***************************************************************************)
(* A model of s3.py: the key classifier (the two regular expressions),    *)
(* the format inventory, the migration of legacy content, and the staged   *)
(* archive upload upload_converted_to_archive / verify_archive_upload,     *)
(* for one call and for two interleaved calls.                             *)
(*                                                                         *)
(* Strings are sequences of one-character strings, so that prefix tests,   *)
(* slicing and the regular expressions are computed character by character.*)
(***************************************************************************)
EXTENDS Integers, Sequences, FiniteSets, TLC

\* ------------------------------------------------------------------ text

\* The characters that occur in the modelled key names, in byte order
\* (the order in which the storage service lists keys).
Alphabet ==
  << "\n", "%", "-", ".", "/", "1", "2", "3", "4", "8",
     "a", "b", "c", "g", "m", "n", "p", "s", "t", "u", "x" >>

\* \w of the re module (no UNICODE flag): letters, digits and underscore.
WordChars ==
  { "1", "2", "3", "4", "8",
    "a", "b", "c", "g", "m", "n", "p", "s", "t", "u", "x" }

\* The class without the dash.
IdChars_NoDash == WordChars

\* The character class [\w-].
IdChars == WordChars \cup { "-" }

Ord(c) == CHOOSE k \in 1..Len(Alphabet) : Alphabet[k] = c

\* str.startswith
StartsWith(s, p) == Len(p) <= Len(s) /\ SubSeq(s, 1, Len(p)) = p

\* s[n:]
DropPrefix(s, n) == SubSeq(s, n + 1, Len(s))

\* Byte-wise comparison of two strings.
LexLess(a, b) ==
  \E k \in 1..(Len(a) + 1) :
    /\ \A m \in 1..(k - 1) : m <= Len(b) /\ a[m] = b[m]
    /\ k <= Len(b)
    /\ (k <= Len(a) => Ord(a[k]) < Ord(b[k]))

RECURSIVE SortKeys(_)
SortKeys(S) ==
  IF S = {} THEN << >>
  ELSE LET least == CHOOSE k \in S : \A o \in S \ {k} : LexLess(k, o)
       IN  << least >> \o SortKeys(S \ {least})

AllIn(s, i, j, C) == \A k \in i..j : s[k] \in C

NoMatch == [matched |-> FALSE, g0 |-> << >>, g1 |-> << >>, g2 |-> << >>]

\* re.compile(r"([\w-]+)\.(\w+)/").match(s): anchored at the start only;
\* both groups are greedy, so the longest admissible extent is taken.
re_video_key_name(s) ==
  LET ends1 == { i \in 1..Len(s) :
                   /\ AllIn(s, 1, i, IdChars)
                   /\ i + 1 <= Len(s) /\ s[i + 1] = "."
                   /\ \E j \in (i + 2)..Len(s) :
                        /\ AllIn(s, i + 2, j, WordChars)
                        /\ j + 1 <= Len(s) /\ s[j + 1] = "/" }
  IN  IF ends1 = {} THEN NoMatch
      ELSE LET i == CHOOSE x \in ends1 : \A y \in ends1 : y <= x
               ends2 == { j \in (i + 2)..Len(s) :
                            /\ AllIn(s, i + 2, j, WordChars)
                            /\ j + 1 <= Len(s) /\ s[j + 1] = "/" }
               j == CHOOSE x \in ends2 : \A y \in ends2 : y <= x
           IN  [matched |-> TRUE,
                g0 |-> SubSeq(s, 1, j + 1),
                g1 |-> SubSeq(s, 1, i),
                g2 |-> SubSeq(s, i + 2, j)]

\* re.compile(r"([\w-]+)/(.*)$").match(s): "." matches any character but
\* a line break, so the greedy (.*) runs up to the first line break or the
\* end; "$" matches at the end of the string and before a line break that
\* is the last character.
re_legacy_video_key_name(s) ==
  LET ends1 == { i \in 1..Len(s) :
                   /\ AllIn(s, 1, i, IdChars)
                   /\ i + 1 <= Len(s) /\ s[i + 1] = "/" }
  IN  IF ends1 = {} THEN NoMatch
      ELSE LET i == CHOOSE x \in ends1 : \A y \in ends1 : y <= x
               breaks == { k \in (i + 2)..Len(s) : s[k] = "\n" }
               stop == IF breaks = {} THEN Len(s) + 1
                       ELSE CHOOSE k \in breaks : \A m \in breaks : k <= m
           IN  IF stop >= Len(s)
               THEN [matched |-> TRUE,
                     g0 |-> SubSeq(s, 1, stop - 1),
                     g1 |-> SubSeq(s, 1, i),
                     g2 |-> SubSeq(s, i + 2, stop - 1)]
               ELSE NoMatch

\* ------------------------------------------------------- names and keys

ABC == << "a", "b", "c" >>
ABC123 == ABC \o << "1", "2", "3" >>
ABCX == ABC \o << "-", "x" >>
MP4 == << "m", "p", "4" >>
M3U8 == << "m", "3", "u", "8" >>
PNG == << "p", "n", "g" >>
TS == << "t", "s" >>
DOT == << "." >>
SLASH == << "/" >>

\* Key names the converted bucket may hold.
KeyUniverse ==
  { ABC123 \o DOT \o MP4 \o SLASH \o ABC123 \o DOT \o MP4,
    ABC123 \o DOT \o MP4 \o SLASH \o ABC123 \o DOT \o PNG,
    ABC123 \o DOT \o M3U8 \o SLASH \o ABC123 \o DOT \o PNG,
    ABC123 \o DOT \o M3U8 \o SLASH \o TS \o SLASH \o ABC123 \o DOT \o TS,
    ABC123 \o SLASH \o ABC123 \o DOT \o MP4,
    ABC123 \o DOT \o PNG,
    ABC \o DOT \o MP4 \o SLASH \o ABC \o DOT \o MP4,
    ABCX \o DOT \o MP4 \o SLASH \o ABCX \o DOT \o MP4 }

\* The video ids a pipeline instance may be started for.
VideoIds == { ABC, ABC123 }

\* formats_to_upload is a set of formats; it is iterated in some order.
FormatChoices ==
  { << >>, << MP4 >>, << M3U8 >>, << MP4, M3U8 >>, << M3U8, MP4 >> }

\* The most keys the converted bucket holds.
MaxKeys == 2

\* key.last_modified as listed: the time-of-day part of the timestamp string.
LastModifiedValues ==
  { [hour |-> 1, minute |-> 0], [hour |-> 2, minute |-> 0],
    [hour |-> 2, minute |-> 55] }

\* datetime.strptime(key.last_modified, ...), in minutes.
strptime(t) == t.hour * 60 + t.minute

\* datetime.utcnow(), in minutes (03:00 of the same day).
utcnow == 180

\* timedelta(hours=1), in minutes.
FreshnessWindow == 60

\* A loop bound that is one too large.
UploadAttempts_OffByOne == 10 + 1

\* xrange(10): the upload attempts per object.
UploadAttempts == 10

c_retries_allowed == 5

\* Every content of the converted bucket: key name -> last_modified.
Buckets ==
  UNION { [S -> LastModifiedValues] :
            S \in { T \in SUBSET KeyUniverse : Cardinality(T) <= MaxKeys } }

\* ----------------------------------------------------------------- state

VARIABLES
  converted_bucket,  \* the source bucket: key name -> last_modified
  archive,           \* the objects at archive.org: {[bucket, name, source]}
  run,               \* per pipeline instance: the locals of upload_converted_to_archive
  library,           \* api.get_library(): the playlists of the catalog
  inventory,         \* the locals of list_missing_converted_formats
  stored,            \* the source bucket: key name -> the object's content
  classifier,        \* a key name under classification, and what was found
  migration          \* the locals of copy_legacy_content_to_new_location

vars == << converted_bucket, archive, run, library, inventory,
           stored, classifier, migration >>

\* The state of the key classification and of the legacy migration.
others == << stored, classifier, migration >>

\* Pipeline instances. Spec starts the first one only.
Runs == { 1, 2 }

\* bucket.list(prefix): the keys with the prefix, in byte order.
BucketList(bucket, prefix) ==
  LET names == SortKeys({ k \in DOMAIN bucket : StartsWith(k, prefix) })
  IN  [ i \in 1..Len(names) |->
          [name |-> names[i], last_modified |-> bucket[names[i]]] ]

\* defaultdict(list) lookup: a missing format reads as the empty list.
KeysFor(d, format) == IF format \in DOMAIN d THEN d[format] ELSE << >>

\* "KA-converted-{0}".format(youtube_id)
ArchiveBucketName(youtube_id) ==
  << "K", "A", "-", "c", "o", "n", "v", "e", "r", "t", "e", "d", "-" >>
    \o youtube_id

\* Appends a stage to the log of stages entered, unless it is the current one.
Note(log, stage) ==
  IF log # << >> /\ log[Len(log)] = stage THEN log ELSE Append(log, stage)

IdleRun ==
  [ pc |-> "idle", youtube_id |-> << >>, formats_to_upload |-> << >>,
    dest_bucket |-> << >>, listing |-> << >>, key_index |-> 0,
    source_keys_for_format |-> << >>, format_index |-> 0, fkey_index |-> 0,
    destination_name |-> << >>, attempt |-> 0, uploaded_filenames |-> << >>,
    verify_index |-> 0, c_retries |-> 0, retval |-> FALSE, result |-> "None",
    \* history, read by the properties only:
    fetched |-> 0,       \* key.get_file calls made
    pushed |-> << >>,    \* the puts that completed: [source, bucket, name]
    head_calls |-> 0,    \* HEAD requests of the current verify_archive_upload
    head_errors |-> 0,   \* those of them that raised
    verified |-> << >>,  \* the names whose HEAD request answered 200
    verify_calls |-> << >>,  \* the names verify_archive_upload was called for
    faulted |-> FALSE,   \* some put or HEAD request has failed
    put_error |-> "None",  \* what the last put of the current object raised
    stages |-> << >> ]   \* the stages entered, in order

NewRun(youtube_id, formats) ==
  [ IdleRun EXCEPT !.pc = "start", !.youtube_id = youtube_id,
                   !.formats_to_upload = formats ]

IdleInventory == [ pc |-> "idle" ]

IdleClassifier == [ pc |-> "idle" ]

IdleMigration == [ pc |-> "idle" ]

\* The content of every object, where no operation looks at it.
Opaque(bucket) == [ k \in DOMAIN bucket |-> "c1" ]

\* The run ends: a return (True/False) or an exception leaving the function.
Finish(rec, result) == [ rec EXCEPT !.pc = "done", !.result = result ]

\* --------------------------------------- upload_converted_to_archive

\* The loops end after the first object.
LoopPosition_FirstKeyOnly(rec, fi, ki) ==
  IF fi > Len(rec.formats_to_upload) \/ ki > 1
  THEN << Len(rec.formats_to_upload) + 1, 1 >>
  ELSE << fi, ki >>

\* The position after (fi, ki) in
\*   for format in formats_to_upload: for key in source_keys_for_format[format]
\* starting the search at (fi, ki) itself; fi past the end when the loops are over.
RECURSIVE LoopPosition(_, _, _)
LoopPosition(rec, fi, ki) ==
  IF fi > Len(rec.formats_to_upload) THEN << fi, 1 >>
  ELSE IF ki <= Len(KeysFor(rec.source_keys_for_format, rec.formats_to_upload[fi]))
       THEN << fi, ki >>
       ELSE LoopPosition(rec, fi + 1, 1)

\* The loops end and verification starts at once, without the wait.
EnterLoop_NoWait(rec, pos) ==
  [ rec EXCEPT !.format_index = pos[1], !.fkey_index = pos[2],
               !.pc = IF pos[1] <= Len(rec.formats_to_upload) THEN "fetch"
                      ELSE IF Len(rec.uploaded_filenames) = 0 THEN "sleep"
                      ELSE "verify",
               !.verify_index = 1 ]

\* The (format, key) loops move to position pos, or end and the
\* propagation wait is next.
EnterLoop(rec, pos) ==
  [ rec EXCEPT !.format_index = pos[1], !.fkey_index = pos[2],
               !.pc = IF pos[1] > Len(rec.formats_to_upload)
                      THEN "sleep" ELSE "fetch" ]

\* An object of exactly the window's age is still too fresh.
TooFresh_Inclusive(key) ==
  utcnow - strptime(key.last_modified) <= FreshnessWindow

\* The readiness test of line 142: the object is still within the window.
TooFresh(key) == utcnow - strptime(key.last_modified) < FreshnessWindow

\* What one iteration of the discovery loop does with a key.
DiscoverStep(rec, key) ==
  LET video_match == re_video_key_name(key.name)
      format == video_match.g2
      seen == Note(rec.stages, "discovery")
  IN  IF ~video_match.matched
        THEN [ rec EXCEPT !.key_index = @ + 1, !.stages = seen ]
      ELSE IF video_match.g1 # rec.youtube_id
        THEN Finish([ rec EXCEPT !.stages = seen ], "AssertionError")
      ELSE IF TooFresh(key)
        THEN Finish([ rec EXCEPT !.stages = Note(seen, "readiness") ],
                    "ReadinessBlocked")
      ELSE [ rec EXCEPT
               !.key_index = @ + 1,
               !.source_keys_for_format =
                  (format :> Append(KeysFor(@, format), key)) @@ @,
               !.stages = Note(Note(seen, "readiness"), "discovery") ]

\* Lines 128-131: the destination bucket is named and the source listed.
ListKeys(r) ==
  /\ run[r].pc = "start"
  /\ run' = [ run EXCEPT ![r] =
       [ @ EXCEPT !.pc = "discover",
                  !.dest_bucket = ArchiveBucketName(run[r].youtube_id),
                  !.listing = BucketList(converted_bucket, run[r].youtube_id),
                  !.key_index = 1,
                  !.stages = << "discovery" >> ] ]
  /\ UNCHANGED << converted_bucket, archive, library, inventory, others >>

\* Lines 131-147: one iteration of the discovery loop.
DiscoverKey(r) ==
  /\ run[r].pc = "discover"
  /\ run[r].key_index <= Len(run[r].listing)
  /\ run' = [ run EXCEPT ![r] =
                DiscoverStep(@, @.listing[@.key_index]) ]
  /\ UNCHANGED << converted_bucket, archive, library, inventory, others >>

\* Only the first requested format is looked at.
MissingFormat_FirstOnly(rec) ==
  /\ Len(rec.formats_to_upload) > 0
  /\ Len(KeysFor(rec.source_keys_for_format, rec.formats_to_upload[1])) = 0

\* Some requested format has no source key (line 150).
MissingFormat(rec) ==
  \E i \in 1..Len(rec.formats_to_upload) :
    Len(KeysFor(rec.source_keys_for_format, rec.formats_to_upload[i])) = 0

\* Lines 149-161: every requested format must have a source key; then the
\* metadata is fetched and the transfer loops are entered.
CheckFormats(r) ==
  /\ run[r].pc = "discover"
  /\ run[r].key_index > Len(run[r].listing)
  /\ run' = [ run EXCEPT ![r] =
       IF MissingFormat(@) THEN Finish(@, "SourceMissing")
       ELSE EnterLoop([ @ EXCEPT !.uploaded_filenames = << >> ],
                      LoopPosition(@, 1, 1)) ]
  /\ UNCHANGED << converted_bucket, archive, library, inventory, others >>

\* The key the transfer loops are at.
CurrentKey(rec) ==
  KeysFor(rec.source_keys_for_format,
          rec.formats_to_upload[rec.format_index])[rec.fkey_index]

\* Only the video id and the dot are stripped.
DestinationName_KeepFolder(name) ==
  DropPrefix(name, Len(re_video_key_name(name).g1) + 1)

\* key.name[len(video_prefix):] of line 170.
DestinationName(name) == DropPrefix(name, Len(re_video_key_name(name).g0))

\* Lines 164-184: the destination name is computed and checked, and the
\* object is fetched into the temporary file.
FetchKey(r) ==
  /\ run[r].pc = "fetch"
  /\ LET rec == run[r]
         key == CurrentKey(rec)
         video_match == re_video_key_name(key.name)
         format == rec.formats_to_upload[rec.format_index]
         destination_name == DestinationName(key.name)
         entered == [ rec EXCEPT !.stages = Note(@, "transfer") ]
     IN  run' = [ run EXCEPT ![r] =
           IF \/ ~video_match.matched
              \/ video_match.g1 # rec.youtube_id
              \/ video_match.g2 # format
              \/ ~StartsWith(key.name, video_match.g0)
              \/ \E i \in 1..Len(destination_name) : destination_name[i] = "/"
           THEN Finish(entered, "AssertionError")
           ELSE [ entered EXCEPT !.pc = "put",
                                 !.destination_name = destination_name,
                                 !.attempt = 0,
                                 !.put_error = "None",
                                 !.fetched = @ + 1 ] ]
  /\ UNCHANGED << converted_bucket, archive, library, inventory, others >>

\* What dest_key.set_contents_from_file may do.
PutOutcomes == { "ok", "BotoServerError", "OtherError" }

\* The put also clears every other bucket of the archive.
ArchivePut_ClearOthers(store, bucket, name, source) ==
  { o \in store : o.bucket = bucket /\ o.name # name }
    \cup { [bucket |-> bucket, name |-> name, source |-> source] }

\* The archive after a put of source to bucket/name: an object of the same
\* name is replaced.
ArchivePut(store, bucket, name, source) ==
  { o \in store : ~(o.bucket = bucket /\ o.name = name) }
    \cup { [bucket |-> bucket, name |-> name, source |-> source] }

\* Every error of a put is caught.
Caught_AnyError(outcome) == outcome # "ok"

\* except BotoServerError of line 198: the errors the upload loop catches.
Caught(outcome) == outcome = "BotoServerError"

\* Lines 194-201: one attempt of the upload loop.
PutAttempt(r) ==
  /\ run[r].pc = "put"
  /\ run[r].attempt < UploadAttempts
  /\ \E outcome \in PutOutcomes :
       LET rec == run[r]
           key == CurrentKey(rec)
       IN  \/ /\ outcome = "ok"
              /\ archive' = ArchivePut(archive, rec.dest_bucket,
                                       rec.destination_name, key.name)
              /\ run' = [ run EXCEPT ![r] =
                   [ @ EXCEPT !.pc = "uploaded",
                              !.pushed = Append(@,
                                 [source |-> key.name,
                                  bucket |-> rec.dest_bucket,
                                  name |-> rec.destination_name]) ] ]
           \/ /\ outcome # "ok" /\ Caught(outcome)
              /\ archive' = archive
              /\ run' = [ run EXCEPT ![r] =
                   IF rec.attempt + 1 < UploadAttempts
                   THEN [ @ EXCEPT !.attempt = @ + 1, !.faulted = TRUE,
                                   !.put_error = outcome ]
                   ELSE Finish([ @ EXCEPT !.attempt = @ + 1,
                                          !.faulted = TRUE,
                                          !.put_error = outcome ],
                               "ServerErrorExhausted") ]
           \/ /\ outcome # "ok" /\ ~Caught(outcome)
              /\ archive' = archive
              /\ run' = [ run EXCEPT ![r] =
                   Finish([ @ EXCEPT !.faulted = TRUE,
                                     !.put_error = outcome ],
                          "OtherError") ]
  /\ UNCHANGED << converted_bucket, library, inventory, others >>

\* Lines 202-204: the name is recorded and the loops move on (the attempt
\* counter is dead from here to the next object's loop).
RecordUpload(r) ==
  /\ run[r].pc = "uploaded"
  /\ run' = [ run EXCEPT ![r] =
       EnterLoop([ @ EXCEPT !.uploaded_filenames =
                              Append(@, run[r].destination_name),
                            !.attempt = 0, !.put_error = "None" ],
                 LoopPosition(@, @.format_index, @.fkey_index + 1)) ]
  /\ UNCHANGED << converted_bucket, archive, library, inventory, others >>

\* Lines 206-209: the propagation wait; then the first name is verified, or
\* with nothing uploaded the function returns True.
Sleep(r) ==
  /\ run[r].pc = "sleep"
  /\ run' = [ run EXCEPT ![r] =
       LET waited == [ @ EXCEPT !.stages = Note(@, "propagation") ]
       IN  IF Len(@.uploaded_filenames) = 0 THEN Finish(waited, "Success")
           ELSE [ waited EXCEPT !.pc = "verify", !.verify_index = 1,
                                !.c_retries = 0, !.head_calls = 0,
                                !.head_errors = 0,
                                !.verify_calls =
                                   << run[r].uploaded_filenames[1] >> ] ]
  /\ UNCHANGED << converted_bucket, archive, library, inventory, others >>

\* ------------------------------------------------ verify_archive_upload

\* What urllib2.urlopen of the HEAD request may do: a response with status
\* 200 or with another success status, an HTTPError, or a URLError that is
\* not an HTTPError (the connection failed).
HeadOutcomes == { "200", "204", "HTTPError", "URLError" }

\* Any success status passes.
StatusOk_AnySuccess(outcome) == outcome \in { "200", "204" }

\* response.code == 200 of line 229.
StatusOk(outcome) == outcome = "200"

\* Lines 222-240: one iteration of the retry loop.
HeadStep(rec, outcome) ==
  LET name == rec.uploaded_filenames[rec.verify_index]
      asked == [ rec EXCEPT
                   !.head_calls = @ + 1,
                   !.head_errors =
                      IF outcome \in { "HTTPError", "URLError" }
                      THEN @ + 1 ELSE @,
                   !.verified =
                      IF outcome = "200" THEN Append(@, name) ELSE @,
                   !.faulted = @ \/ outcome # "200",
                   !.stages = Note(@, "verification") ]
  IN  CASE outcome \in { "200", "204" } ->
             [ asked EXCEPT !.pc = "verified", !.retval = StatusOk(outcome) ]
        [] outcome = "HTTPError" ->
             IF rec.c_retries + 1 < c_retries_allowed
             THEN [ asked EXCEPT !.c_retries = @ + 1 ]
             ELSE [ asked EXCEPT !.c_retries = @ + 1,
                                 !.pc = "verified", !.retval = FALSE ]
        [] OTHER -> Finish(asked, "URLError")

HeadCheck(r) ==
  /\ run[r].pc = "verify"
  /\ run[r].c_retries < c_retries_allowed
  /\ \E outcome \in HeadOutcomes :
       run' = [ run EXCEPT ![r] = HeadStep(@, outcome) ]
  /\ UNCHANGED << converted_bucket, archive, library, inventory, others >>

\* The loop ends after the first name, whatever was returned for it.
VerifyReturn_FirstOnly(r) ==
  /\ run[r].pc = "verified"
  /\ run' = [ run EXCEPT ![r] =
       IF ~@.retval THEN Finish(@, "VerificationFailed")
       ELSE Finish(@, "Success") ]
  /\ UNCHANGED << converted_bucket, archive, library, inventory, others >>

\* Lines 209-216: the caller's branch on what verify_archive_upload returned.
VerifyReturn(r) ==
  /\ run[r].pc = "verified"
  /\ run' = [ run EXCEPT ![r] =
       IF ~@.retval THEN Finish(@, "VerificationFailed")
       ELSE IF @.verify_index = Len(@.uploaded_filenames)
         THEN Finish(@, "Success")
       ELSE [ @ EXCEPT !.pc = "verify", !.verify_index = @ + 1,
                       !.c_retries = 0, !.head_calls = 0,
                       !.head_errors = 0,
                       !.verify_calls =
                          Append(@, run[r].uploaded_filenames[
                                      run[r].verify_index + 1]) ] ]
  /\ UNCHANGED << converted_bucket, archive, library, inventory, others >>

\* ------------------------------------------------------- specification

Init ==
  /\ converted_bucket \in Buckets
  /\ archive = {}
  /\ \E youtube_id \in VideoIds, formats \in FormatChoices :
       run = [ r \in Runs |->
                 IF r = 1 THEN NewRun(youtube_id, formats) ELSE IdleRun ]
  /\ library = << >>
  /\ inventory = IdleInventory
  /\ stored = Opaque(converted_bucket)
  /\ classifier = IdleClassifier
  /\ migration = IdleMigration

\* A step of pipeline instance r.
RunStep(r) ==
  \/ ListKeys(r)
  \/ DiscoverKey(r)
  \/ CheckFormats(r)
  \/ FetchKey(r)
  \/ PutAttempt(r)
  \/ RecordUpload(r)
  \/ Sleep(r)
  \/ HeadCheck(r)
  \/ VerifyReturn(r)

Next == \E r \in Runs : RunStep(r)

Spec == Init /\ [][Next]_vars

\* Two pipeline instances, for different video ids, on the same bucket;
\* their steps are interleaved in every way.
InitConcurrent ==
  /\ converted_bucket \in
       { b \in Buckets :
           \A k \in DOMAIN b : b[k] # [hour |-> 2, minute |-> 0] }
  /\ archive = {}
  /\ \E youtube_id \in { ABC, ABCX },
        formats \in { << MP4 >>, << M3U8 >>, << MP4, M3U8 >> } :
       run = [ r \in Runs |->
                 IF r = 1 THEN NewRun(youtube_id, << MP4 >>)
                 ELSE NewRun(ABC123, formats) ]
  /\ library = << >>
  /\ inventory = IdleInventory
  /\ stored = Opaque(converted_bucket)
  /\ classifier = IdleClassifier
  /\ migration = IdleMigration

SpecConcurrent == InitConcurrent /\ [][Next]_vars

\* The latest hour of a last_modified time (now is 03:00).
MaxHour == 4

\* One object of the video, last modified at any minute from 00:00 to
\* MaxHour:59, so before, at and after the current time.
InitReadiness ==
  /\ \E hour \in 0..MaxHour, minute \in 0..59 :
       converted_bucket =
         (ABC \o DOT \o MP4 \o SLASH \o ABC \o DOT \o MP4
            :> [hour |-> hour, minute |-> minute])
  /\ archive = {}
  /\ run = [ r \in Runs |->
               IF r = 1 THEN NewRun(ABC, << MP4 >>) ELSE IdleRun ]
  /\ library = << >>
  /\ inventory = IdleInventory
  /\ stored = Opaque(converted_bucket)
  /\ classifier = IdleClassifier
  /\ migration = IdleMigration

SpecReadiness == InitReadiness /\ [][Next]_vars

\* --------------------------------------------------- the format inventory

\* The name under which bucket.list(delimiter="/") reports a key: keys
\* that share the part up to the first "/" are rolled up into that prefix.
Rollup(name) ==
  LET slashes == { i \in 1..Len(name) : name[i] = "/" }
  IN  IF slashes = {} THEN name
      ELSE SubSeq(name, 1, CHOOSE i \in slashes : \A j \in slashes : i <= j)

\* converted_bucket.list(delimiter="/"): the names, in byte order.
DelimitedList(bucket) == SortKeys({ Rollup(k) : k \in DOMAIN bucket })

\* What was found before is forgotten.
FormatsOf_Forget(d, youtube_id) == {}

\* defaultdict(set) lookup: a missing video id reads as the empty set.
FormatsOf(d, youtube_id) ==
  IF youtube_id \in DOMAIN d THEN d[youtube_id] ELSE {}

\* A legacy key is taken for mp4 content of its video.
InventoryStep_LegacyAsMp4(acc, name) ==
  LET video_match == re_video_key_name(name)
      legacy_match == re_legacy_video_key_name(name)
  IN  IF video_match.matched
      THEN [ acc EXCEPT !.converted_videos =
               (video_match.g1 :> (FormatsOf(@, video_match.g1)
                                     \cup { video_match.g2 })) @@ @ ]
      ELSE IF legacy_match.matched
      THEN [ acc EXCEPT !.converted_videos =
               (legacy_match.g1 :> (FormatsOf(@, legacy_match.g1)
                                      \cup { MP4 })) @@ @ ]
      ELSE acc

\* Lines 81-88: what list_converted_formats does with one listed name.
InventoryStep(acc, name) ==
  LET video_match == re_video_key_name(name)
  IN  IF ~video_match.matched
      THEN IF re_legacy_video_key_name(name).matched
           THEN [ acc EXCEPT !.legacy_video_keys = @ \cup { name } ]
           ELSE acc
      ELSE [ acc EXCEPT !.converted_videos =
               (video_match.g1 :> (FormatsOf(@, video_match.g1)
                                     \cup { video_match.g2 })) @@ @ ]

RECURSIVE InventoryFold(_, _, _)
InventoryFold(names, i, acc) ==
  IF i > Len(names) THEN acc
  ELSE InventoryFold(names, i + 1, InventoryStep(acc, names[i]))

\* list_converted_formats(): video id -> the formats it has folders of.
list_converted_formats(bucket) ==
  InventoryFold(DelimitedList(bucket), 1,
                [ converted_videos |-> << >>, legacy_video_keys |-> {} ])
    .converted_videos

\* The videos of the catalog: with a youtube_id, or without one.
CatalogVideos ==
  { [youtube_id |-> ABC123], [youtube_id |-> ABC], [kind |-> "Exercise"] }

\* The most videos the catalog holds, over all its playlists.
MaxVideos == 2

SeqsUpTo(S, n) == UNION { [1..m -> S] : m \in 0..n }

RECURSIVE VideoCount(_)
VideoCount(lib) ==
  IF lib = << >> THEN 0
  ELSE Len(lib[1].videos) + VideoCount(Tail(lib))

\* Every catalog: at most two playlists.
Libraries ==
  LET playlists == { [videos |-> vs] : vs \in SeqsUpTo(CatalogVideos, MaxVideos) }
  IN  { lib \in { << >> } \cup { << p >> : p \in playlists }
                  \cup (playlists \X playlists) :
          VideoCount(lib) <= MaxVideos }

\* The values DOWNLOADABLE_FORMATS (imported from util) may have.
RequiredChoices == { { MP4, M3U8, PNG }, { MP4, M3U8 }, { M3U8 } }

\* The position at or after (pi, vi) in
\*   for playlist in library: for video in playlist["videos"]
RECURSIVE LibraryPosition(_, _, _)
LibraryPosition(lib, pi, vi) ==
  IF pi > Len(lib) THEN << pi, 1 >>
  ELSE IF vi <= Len(lib[pi].videos) THEN << pi, vi >>
       ELSE LibraryPosition(lib, pi + 1, 1)

\* Lines 113-115: the inventory is taken and the catalog fetched.
InventoryList ==
  /\ inventory.pc = "start"
  /\ LET pos == LibraryPosition(library, 1, 1)
     IN  inventory' =
           [ inventory EXCEPT
               !.pc = "loop",
               !.converted_formats = list_converted_formats(converted_bucket),
               !.missing_converted_formats = << >>,
               !.playlist_index = pos[1], !.video_index = pos[2] ]
  /\ UNCHANGED << converted_bucket, archive, run, library, others >>

\* Lines 116-118: one video of the catalog.
InventoryVideo ==
  /\ inventory.pc = "loop"
  /\ inventory.playlist_index <= Len(library)
  /\ LET video == library[inventory.playlist_index]
                     .videos[inventory.video_index]
         pos == LibraryPosition(library, inventory.playlist_index,
                                inventory.video_index + 1)
         moved == [ inventory EXCEPT !.playlist_index = pos[1],
                                     !.video_index = pos[2] ]
     IN  inventory' =
           IF "youtube_id" \notin DOMAIN video THEN moved
           ELSE [ moved EXCEPT
                    !.missing_converted_formats =
                       (video.youtube_id :>
                          (inventory.DOWNLOADABLE_FORMATS
                             \ FormatsOf(inventory.converted_formats,
                                         video.youtube_id))) @@ @,
                    \* the lookup in the defaultdict leaves an entry behind
                    !.converted_formats =
                       (video.youtube_id :> FormatsOf(@, video.youtube_id))
                         @@ @ ]
  /\ UNCHANGED << converted_bucket, archive, run, library, others >>

\* Line 119.
InventoryReturn ==
  /\ inventory.pc = "loop"
  /\ inventory.playlist_index > Len(library)
  /\ inventory' = [ inventory EXCEPT !.pc = "done" ]
  /\ UNCHANGED << converted_bucket, archive, run, library, others >>

\* list_missing_converted_formats over every bucket content and catalog.
InitInventory ==
  /\ converted_bucket \in
       UNION { [S -> { [hour |-> 1, minute |-> 0] }] :
                 S \in { T \in SUBSET KeyUniverse : Cardinality(T) <= MaxKeys } }
  /\ archive = {}
  /\ run = [ r \in Runs |-> IdleRun ]
  /\ library \in Libraries
  /\ \E required \in RequiredChoices :
       inventory = [ pc |-> "start", DOWNLOADABLE_FORMATS |-> required,
                     converted_formats |-> << >>,
                     missing_converted_formats |-> << >>,
                     playlist_index |-> 0, video_index |-> 0 ]
  /\ stored = Opaque(converted_bucket)
  /\ classifier = IdleClassifier
  /\ migration = IdleMigration

NextInventory == InventoryList \/ InventoryVideo \/ InventoryReturn

SpecInventory == InitInventory /\ [][NextInventory]_vars

\* ------------------------------------------------------ key classification

\* The characters of the key names that are classified one by one: a word
\* character, the dash, the two separators, a line break and a character
\* that is none of these.
ClassifierWord == { "a" }
ClassifierChars == ClassifierWord \cup { "-", ".", "/", "\n", "%" }

\* The longest key name that is classified.
MaxLen == 5

\* Every key name of at most MaxLen characters.
KeyStrings == UNION { [1..n -> ClassifierChars] : n \in 1..MaxLen }

\* What the code makes of a key name: the current pattern is tried first
\* and the legacy pattern only if it fails (lines 81-88, 132-134); the path
\* of a current-style key is what follows the matched prefix (lines
\* 168-170), the path of a legacy key is the second group (line 107).
Classify(name) ==
  LET video_match == re_video_key_name(name)
      legacy_match == re_legacy_video_key_name(name)
  IN  IF video_match.matched
      THEN [ kind |-> "current", video_id |-> video_match.g1,
             format |-> video_match.g2,
             relative_path |-> DestinationName(name) ]
      ELSE IF legacy_match.matched
      THEN [ kind |-> "legacy", video_id |-> legacy_match.g1,
             format |-> << >>, relative_path |-> legacy_match.g2 ]
      ELSE [ kind |-> "unrecognized", video_id |-> << >>,
             format |-> << >>, relative_path |-> << >> ]

\* The keys that list_converted_formats counts as legacy (lines 79-89).
legacy_video_keys(bucket) ==
  InventoryFold(DelimitedList(bucket), 1,
                [ converted_videos |-> << >>, legacy_video_keys |-> {} ])
    .legacy_video_keys

\* list_legacy_mp4_videos(): the first group of every listed name that the
\* legacy pattern matches.
list_legacy_mp4_videos(bucket) ==
  LET names == DelimitedList(bucket)
  IN  { re_legacy_video_key_name(names[i]).g1 :
          i \in { n \in 1..Len(names) :
                    re_legacy_video_key_name(names[n]).matched } }

NewClassifier(name) ==
  [ pc |-> "start", key |-> name, found |-> [ kind |-> "None", video_id |-> << >>, format |-> << >>,
                relative_path |-> << >> ],
    legacy_mp4_videos |-> {}, legacy_counted |-> {} ]

\* The key name is classified.
ClassifyKey ==
  /\ classifier.pc = "start"
  /\ classifier' = [ classifier EXCEPT !.pc = "classified",
                                       !.found = Classify(classifier.key) ]
  /\ UNCHANGED << converted_bucket, archive, run, library, inventory,
                  stored, migration >>

\* list_legacy_mp4_videos() on the bucket that holds the key.
ListLegacy ==
  /\ classifier.pc = "classified"
  /\ classifier' =
       [ classifier EXCEPT
           !.pc = "listed",
           !.legacy_mp4_videos = list_legacy_mp4_videos(converted_bucket) ]
  /\ UNCHANGED << converted_bucket, archive, run, library, inventory,
                  stored, migration >>

\* list_converted_formats() on the same bucket: the keys it counts as legacy.
CountLegacy ==
  /\ classifier.pc = "listed"
  /\ classifier' =
       [ classifier EXCEPT
           !.pc = "done",
           !.legacy_counted = legacy_video_keys(converted_bucket) ]
  /\ UNCHANGED << converted_bucket, archive, run, library, inventory,
                  stored, migration >>

\* Every key name, alone in the bucket.
InitClassifier ==
  /\ \E name \in KeyStrings :
       /\ converted_bucket = (name :> [hour |-> 1, minute |-> 0])
       /\ classifier = NewClassifier(name)
  /\ archive = {}
  /\ run = [ r \in Runs |-> IdleRun ]
  /\ library = << >>
  /\ inventory = IdleInventory
  /\ stored = Opaque(converted_bucket)
  /\ migration = IdleMigration

NextClassifier == ClassifyKey \/ ListLegacy \/ CountLegacy

SpecClassifier == InitClassifier /\ [][NextClassifier]_vars

\* ------------------------------- copy_legacy_content_to_new_location

LINEBREAK == << "\n" >>

\* Key names the bucket may hold when legacy content is migrated: legacy
\* keys of abc123 (one nested, two with a line break in the path), a key
\* already under the new name, and a legacy key of another video.
MigrationKeys ==
  { ABC123 \o SLASH \o ABC123 \o DOT \o MP4,
    ABC123 \o SLASH \o ABC123 \o DOT \o PNG,
    ABC123 \o SLASH \o TS \o SLASH \o ABC123 \o DOT \o TS,
    ABC123 \o SLASH \o PNG \o LINEBREAK,
    ABC123 \o SLASH \o LINEBREAK \o PNG,
    ABC123 \o DOT \o MP4 \o SLASH \o ABC123 \o DOT \o MP4,
    ABC \o SLASH \o ABC \o DOT \o MP4 }

\* The contents an object may have.
Contents == { "c1", "c2" }

\* "{0}.mp4/{1}".format(youtube_id, legacy_match.group(2)) of line 107.
LegacyDestination(youtube_id, legacy_match) ==
  youtube_id \o DOT \o MP4 \o SLASH \o legacy_match.g2

\* The call starts: the keys under "<youtube_id>/" are listed (line 103).
MigrationList ==
  /\ migration.pc = "start"
  /\ migration' =
       [ migration EXCEPT
           !.pc = "loop",
           !.listing = BucketList(converted_bucket,
                                  migration.youtube_id \o SLASH),
           !.key_index = 1 ]
  /\ UNCHANGED << converted_bucket, archive, run, library, inventory,
                  stored, classifier >>

\* Lines 104-109: one listed key is checked and copied; the copy is a new
\* object (or replaces the object of that name) with the content of the
\* source, written now.
CopyKey ==
  /\ migration.pc = "loop"
  /\ migration.key_index <= Len(migration.listing)
  /\ LET key == migration.listing[migration.key_index]
         legacy_match == re_legacy_video_key_name(key.name)
         dest_key == LegacyDestination(migration.youtube_id, legacy_match)
     IN  IF ~legacy_match.matched \/ legacy_match.g1 # migration.youtube_id
         THEN /\ migration' = [ migration EXCEPT
                                  !.pc = "done", !.calls = @ + 1,
                                  !.result = "AssertionError",
                                  !.after = Append(@, stored) ]
              /\ UNCHANGED << converted_bucket, stored >>
         ELSE /\ migration' = [ migration EXCEPT !.key_index = @ + 1 ]
              /\ converted_bucket' =
                   (dest_key :> [hour |-> 3, minute |-> 0])
                     @@ converted_bucket
              /\ stored' = (dest_key :> stored[key.name]) @@ stored
  /\ UNCHANGED << archive, run, library, inventory, classifier >>

\* The loop is over and the call returns.
MigrationReturn ==
  /\ migration.pc = "loop"
  /\ migration.key_index > Len(migration.listing)
  /\ migration' = [ migration EXCEPT !.pc = "done", !.calls = @ + 1,
                                     !.result = "Returned",
                                     !.after = Append(@, stored) ]
  /\ UNCHANGED << converted_bucket, archive, run, library, inventory,
                  stored, classifier >>

\* The migration of the same video is run a second time.
MigrateAgain ==
  /\ migration.pc = "done"
  /\ migration.calls = 1
  /\ migration' = [ migration EXCEPT !.pc = "start", !.result = "None" ]
  /\ UNCHANGED << converted_bucket, archive, run, library, inventory,
                  stored, classifier >>

\* Every bucket content and either video id.
InitMigration ==
  /\ \E S \in { T \in SUBSET MigrationKeys : Cardinality(T) <= MaxKeys } :
       /\ converted_bucket = [ k \in S |-> [hour |-> 1, minute |-> 0] ]
       /\ stored \in [ S -> Contents ]
  /\ archive = {}
  /\ run = [ r \in Runs |-> IdleRun ]
  /\ library = << >>
  /\ inventory = IdleInventory
  /\ classifier = IdleClassifier
  /\ \E youtube_id \in VideoIds :
       migration = [ pc |-> "start", youtube_id |-> youtube_id,
                     listing |-> << >>, key_index |-> 0, result |-> "None",
                     \* history, read by the properties only:
                     calls |-> 0,          \* the calls that have ended
                     before |-> stored,    \* the contents before the first
                     after |-> << >> ]     \* the contents after each call

NextMigration == MigrationList \/ CopyKey \/ MigrationReturn \/ MigrateAgain

SpecMigration == InitMigration /\ [][NextMigration]_vars

\* ------------------------------------------------------------ properties
\* The vocabulary of the properties, stated on the bucket's key names
\* without the classifier.

K_MP4 == ABC123 \o DOT \o MP4 \o SLASH \o ABC123 \o DOT \o MP4
K_PNG == ABC123 \o DOT \o MP4 \o SLASH \o ABC123 \o DOT \o PNG

\* The format tags and video ids that occur in KeyUniverse.
KnownFormats == { MP4, M3U8 }
KnownIds == { ABC, ABC123, ABCX }

Started(r) == run[r].pc # "idle"
Ended(r) == run[r].pc = "done"

\* key is <id>.<format>/<path>
IsObjectOf(key, id, format) == StartsWith(key, id \o DOT \o format \o SLASH)

\* The source objects of format under video id.
SourceObjects(id, format) ==
  { k \in DOMAIN converted_bucket : IsObjectOf(k, id, format) }

\* The current-style objects of video id, of any format.
ObjectsOf(id) == UNION { SourceObjects(id, f) : f \in KnownFormats }

\* The current-style keys of other videos that a listing by the prefix id returns.
ForeignKeys(id) ==
  { k \in DOMAIN converted_bucket :
      /\ StartsWith(k, id)
      /\ \E w \in KnownIds \ { id }, f \in KnownFormats : IsObjectOf(k, w, f) }

\* The object was modified less than one hour before now.
Fresh(k) ==
  180 - (converted_bucket[k].hour * 60 + converted_bucket[k].minute) < 60

Requested(r) ==
  { run[r].formats_to_upload[i] : i \in 1..Len(run[r].formats_to_upload) }

\* The source objects of the requested formats.
Selected(r) ==
  UNION { SourceObjects(run[r].youtube_id, f) : f \in Requested(r) }

PushedSources(r) == { run[r].pushed[i].source : i \in 1..Len(run[r].pushed) }

PushedNames(r) == [ i \in 1..Len(run[r].pushed) |-> run[r].pushed[i].name ]

HasStage(r, stage) ==
  \E i \in 1..Len(run[r].stages) : run[r].stages[i] = stage

\* C1: upload_converted_to_archive returns True only if (a) every requested
\* format had at least one source object, (b) no current-style object of the
\* video was modified less than one hour ago, (c) a put completed for every
\* source object of every requested format, and (d) the HEAD check answered
\* 200 for every uploaded name, in order, one by one.
C1_SuccessOnlyWhenComplete ==
  \A r \in Runs :
    run[r].result = "Success" =>
      /\ \A f \in Requested(r) : SourceObjects(run[r].youtube_id, f) # {}
      /\ \A k \in ObjectsOf(run[r].youtube_id) : ~Fresh(k)
      /\ Selected(r) \subseteq PushedSources(r)
      /\ PushedNames(r) = run[r].uploaded_filenames
      /\ run[r].verified = run[r].uploaded_filenames

\* A run that returned True after uploading and verifying two objects.
C1_Witness ==
  \E r \in Runs :
    run[r].result = "Success" /\ Len(run[r].uploaded_filenames) = 2

\* C2: if any current-style object of the video is within the freshness
\* window, the run fetches nothing, puts nothing and ends with
\* ReadinessBlocked.
C2_ReadinessGate ==
  \A r \in Runs :
    (Started(r) /\ \E k \in ObjectsOf(run[r].youtube_id) : Fresh(k)) =>
      /\ run[r].fetched = 0
      /\ run[r].pushed = << >>
      /\ Ended(r) => run[r].result = "ReadinessBlocked"

SomeFormatMissing(r) ==
  \E f \in Requested(r) : SourceObjects(run[r].youtube_id, f) = {}

\* C3 as stated: if a requested format has no source object, the run puts
\* nothing and ends with SourceMissing.
C3_SourceMissingAlways ==
  \A r \in Runs :
    (Started(r) /\ SomeFormatMissing(r)) =>
      /\ run[r].pushed = << >>
      /\ Ended(r) => run[r].result = "SourceMissing"

\* C3 as amended: if a requested format has no source object, the run
\* fetches and puts nothing and ends in failure: SourceMissing, unless the
\* discovery loop ended the run first, with ReadinessBlocked on a fresh
\* object of the video or with the video-id assertion on another video's key.
C3_SourceMissingOrEarlierAbort ==
  \A r \in Runs :
    (Started(r) /\ SomeFormatMissing(r)) =>
      /\ run[r].fetched = 0
      /\ run[r].pushed = << >>
      /\ \A o \in archive : o.bucket # ArchiveBucketName(run[r].youtube_id)
      /\ Ended(r) =>
           /\ run[r].result \in
                { "SourceMissing", "ReadinessBlocked", "AssertionError" }
           /\ run[r].result = "ReadinessBlocked" =>
                \E k \in ObjectsOf(run[r].youtube_id) : Fresh(k)
           /\ run[r].result = "AssertionError" =>
                ForeignKeys(run[r].youtube_id) # {}
           /\ ( /\ ForeignKeys(run[r].youtube_id) = {}
                /\ \A k \in ObjectsOf(run[r].youtube_id) : ~Fresh(k) )
              => run[r].result = "SourceMissing"

\* A run that ended with SourceMissing although another requested format
\* has source objects.
C3_Witness ==
  \E r \in Runs :
    /\ run[r].result = "SourceMissing"
    /\ \E f \in Requested(r) : SourceObjects(run[r].youtube_id, f) # {}

\* C4: the put of one object is attempted at most 10 times; a put that
\* succeeds after k <= 9 transient failures counts as uploaded and the run
\* goes on; after 10 transient failures the run ends with
\* ServerErrorExhausted: no further put, no wait, no verification.
C4_TransferRetryBudget ==
  \A r \in Runs :
    /\ run[r].pc = "put" => run[r].attempt <= 9 /\ run[r].result = "None"
    /\ run[r].pc = "uploaded" =>
         /\ run[r].attempt <= 9
         /\ run[r].result = "None"
         /\ run[r].pushed # << >>
         /\ run[r].pushed[Len(run[r].pushed)].source = CurrentKey(run[r]).name
    /\ PushedNames(r) =
         run[r].uploaded_filenames \o
           (IF run[r].pc = "uploaded"
            THEN << run[r].destination_name >> ELSE << >>)
    /\ run[r].result = "ServerErrorExhausted" =>
         /\ Ended(r)
         /\ run[r].attempt = 10
         /\ CurrentKey(run[r]).name \notin PushedSources(r)
         /\ run[r].head_calls = 0
         /\ ~HasStage(r, "propagation") /\ ~HasStage(r, "verification")
         /\ ~ENABLED RunStep(r)

\* The second object's put failed 10 times after the first was uploaded.
C4_Witness ==
  \E r \in Runs :
    /\ run[r].result = "ServerErrorExhausted"
    /\ Len(run[r].uploaded_filenames) = 1

Rank(stage) ==
  CASE stage = "discovery" -> 1
    [] stage = "readiness" -> 2
    [] stage = "transfer" -> 3
    [] stage = "propagation" -> 4
    [] stage = "verification" -> 5

\* Discovery and readiness check taken as one pass over the listing.
Phase(stage) == IF stage = "discovery" THEN 2 ELSE Rank(stage)

\* No HEAD check before every selected object is pushed and the wait is
\* over; no fetch or put once verification has begun.
TransferBeforeVerification(r) ==
  /\ HasStage(r, "verification") =>
       /\ HasStage(r, "propagation")
       /\ Selected(r) \subseteq PushedSources(r)
       /\ run[r].pc \notin { "fetch", "put", "uploaded" }
  /\ run[r].head_calls > 0 => HasStage(r, "verification")
  /\ HasStage(r, "propagation") => Selected(r) \subseteq PushedSources(r)

\* C6 as stated: the stages discovery, readiness check, transfer,
\* propagation wait and verification are entered strictly in that order,
\* none of them twice.
C6_StagesStrictlyOrdered ==
  \A r \in Runs :
    /\ \A i, j \in 1..Len(run[r].stages) :
         i < j => Rank(run[r].stages[i]) < Rank(run[r].stages[j])
    /\ TransferBeforeVerification(r)

\* C6 as amended: discovery and the readiness check are one pass over the
\* listing (each key is classified, checked, then grouped); that pass,
\* transfer, propagation wait and verification are entered strictly in that
\* order, none of the last three twice; no HEAD check comes before every
\* selected object is pushed and the wait is over, and no put after one.
C6_PassesStrictlyOrdered ==
  \A r \in Runs :
    /\ \A i, j \in 1..Len(run[r].stages) :
         i < j =>
           \/ Phase(run[r].stages[i]) < Phase(run[r].stages[j])
           \/ Phase(run[r].stages[i]) = 2 /\ Phase(run[r].stages[j]) = 2
    /\ TransferBeforeVerification(r)

\* A run that went through every stage and returned True.
C6_Witness ==
  \E r \in Runs :
    /\ run[r].result = "Success"
    /\ run[r].stages = << "discovery", "readiness", "discovery",
                          "transfer", "propagation", "verification" >>

\* The scenario of C7: the bucket holds exactly abc123.mp4/abc123.mp4 and
\* abc123.mp4/abc123.png, both modified 2 hours ago; mp4 is requested for
\* abc123; the run has ended and no put and no HEAD check has failed.
C7_Scenario(r) ==
  /\ DOMAIN converted_bucket = { K_MP4, K_PNG }
  /\ \A k \in DOMAIN converted_bucket :
       converted_bucket[k] = [hour |-> 1, minute |-> 0]
  /\ run[r].youtube_id = ABC123
  /\ run[r].formats_to_upload = << MP4 >>
  /\ Ended(r)
  /\ ~run[r].faulted

\* C7 as stated: in the scenario the result is Success and the archive
\* holds exactly one object, abc123.mp4 in KA-converted-abc123.
C7_ScenarioCopiesOne ==
  \A r \in Runs :
    C7_Scenario(r) =>
      /\ run[r].result = "Success"
      /\ archive = { [bucket |-> ArchiveBucketName(ABC123),
                      name |-> ABC123 \o DOT \o MP4, source |-> K_MP4] }

\* C7 as amended: in the scenario the result is Success and the archive
\* holds exactly two objects in KA-converted-abc123, abc123.mp4 and
\* abc123.png (both keys are under the mp4 folder), each verified.
C7_ScenarioCopiesBoth ==
  \A r \in Runs :
    C7_Scenario(r) =>
      /\ run[r].result = "Success"
      /\ archive = { [bucket |-> ArchiveBucketName(ABC123),
                      name |-> ABC123 \o DOT \o MP4, source |-> K_MP4],
                     [bucket |-> ArchiveBucketName(ABC123),
                      name |-> ABC123 \o DOT \o PNG, source |-> K_PNG] }
      /\ run[r].verified = << ABC123 \o DOT \o MP4, ABC123 \o DOT \o PNG >>

C7_Witness == \E r \in Runs : C7_Scenario(r) /\ run[r].result = "Success"

\* Every push so far is of a selected object, to the video's bucket, under
\* the key's name without its <video_id>.<format>/ prefix.
PushesWellFormed(r) ==
  \A i \in 1..Len(run[r].pushed) :
    LET p == run[r].pushed[i]
    IN  /\ p.source \in Selected(r)
        /\ p.bucket = << "K", "A", "-", "c", "o", "n", "v", "e", "r", "t",
                         "e", "d", "-" >> \o run[r].youtube_id
        /\ \E f \in Requested(r) :
             p.source = run[r].youtube_id \o DOT \o f \o SLASH \o p.name
        /\ \E o \in archive : o.bucket = p.bucket /\ o.name = p.name

\* C8 as stated: a run that reached the transfer stage has, when it ends,
\* pushed exactly the source objects of the requested formats, each to
\* KA-converted-<video_id> under its stripped name.
C8_PushedExactlySelected ==
  \A r \in Runs :
    (HasStage(r, "transfer") /\ Ended(r)) =>
      PushedSources(r) = Selected(r) /\ PushesWellFormed(r)

\* C8 as amended: a run that completes the transfer stage (reaches the
\* propagation wait) has pushed exactly the source objects of the requested
\* formats; in every run the objects pushed so far are among them, and each
\* was pushed to KA-converted-<video_id> under its stripped name.
C8_TransferSelection ==
  \A r \in Runs :
    /\ PushesWellFormed(r)
    /\ (run[r].pc = "sleep" \/ HasStage(r, "propagation")) =>
         PushedSources(r) = Selected(r)

\* The transfer stage is complete with an object pushed while the bucket
\* holds an object that was not selected.
C8_Witness ==
  \E r \in Runs :
    /\ run[r].pc = "sleep"
    /\ run[r].pushed # << >>
    /\ DOMAIN converted_bucket \ Selected(r) # {}

\* C9: no error of the existence check leaves verify_archive_upload as an
\* exception: it always returns a boolean.
C9_VerifyNeverRaises == \A r \in Runs : run[r].result # "URLError"

\* The video ids the catalog's videos carry.
CatalogIds ==
  UNION { { library[i].videos[j].youtube_id :
              j \in { n \in 1..Len(library[i].videos) :
                        "youtube_id" \in DOMAIN library[i].videos[n] } } :
          i \in 1..Len(library) }

\* The formats of which the bucket holds a key <id>.<format>/...
PresentFormats(id) == { f \in KnownFormats : SourceObjects(id, f) # {} }

\* C10: the result of list_missing_converted_formats has exactly one entry
\* per video id of the catalog (videos without an id are skipped), and the
\* entry is the required set minus the formats the converted bucket holds
\* for the id: the whole required set for an id the bucket does not hold.
C10_MissingFormats ==
  inventory.pc = "done" =>
    /\ DOMAIN inventory.missing_converted_formats = CatalogIds
    /\ \A id \in CatalogIds :
         inventory.missing_converted_formats[id] =
           inventory.DOWNLOADABLE_FORMATS \ PresentFormats(id)

\* A finished call whose catalog holds a video without an id, which is
\* skipped, and a video of which the bucket holds a legacy key only, so that
\* every required format is missing for it.
C10_Witness ==
  /\ inventory.pc = "done"
  /\ \E i \in 1..Len(library) :
       \E j \in 1..Len(library[i].videos) :
         "youtube_id" \notin DOMAIN library[i].videos[j]
  /\ \E id \in CatalogIds :
       /\ PresentFormats(id) = {}
       /\ \E k \in DOMAIN converted_bucket : StartsWith(k, id \o SLASH)
       /\ inventory.missing_converted_formats[id] =
            inventory.DOWNLOADABLE_FORMATS

\* The ways of reading key as <id>.<fmt>/<path>, id over word characters and
\* the dash, fmt over word characters: the triples << id, fmt, path >>.
CurrentReadings(key) ==
  { << SubSeq(key, 1, i), SubSeq(key, i + 2, j), SubSeq(key, j + 2, Len(key)) >> :
      << i, j >> \in
        { p \in (1..Len(key)) \X (1..Len(key)) :
            /\ p[1] + 2 <= p[2] /\ p[2] + 1 <= Len(key)
            /\ \A k \in 1..p[1] : key[k] \in ClassifierWord \cup { "-" }
            /\ key[p[1] + 1] = "."
            /\ \A k \in (p[1] + 2)..p[2] : key[k] \in ClassifierWord
            /\ key[p[2] + 1] = "/" } }

\* C11: for every key of the form <id>.<fmt>/<path> the classifier finds a
\* current-style key and recovers exactly (id, fmt, path), and
\* id + "." + fmt + "/" + path, rebuilt from what it recovered, is the key.
C11_CurrentRoundTrip ==
  classifier.pc \in { "classified", "listed", "done" } =>
    \A t \in CurrentReadings(classifier.key) :
      /\ classifier.found.kind = "current"
      /\ << classifier.found.video_id, classifier.found.format,
            classifier.found.relative_path >> = t
      /\ classifier.found.video_id \o << "." >> \o classifier.found.format
           \o << "/" >> \o classifier.found.relative_path = classifier.key

\* A classified current-style key whose id holds a dash and whose path is
\* not empty.
C11_Witness ==
  /\ classifier.pc = "classified"
  /\ CurrentReadings(classifier.key) # {}
  /\ \E k \in 1..Len(classifier.found.video_id) :
       classifier.found.video_id[k] = "-"
  /\ classifier.found.relative_path # << >>

\* The ways of reading key as <id>/<path>, id over word characters and the
\* dash (so with no dot before the first slash): the pairs << id, path >>.
LegacyReadings(key) ==
  { << SubSeq(key, 1, i), SubSeq(key, i + 2, Len(key)) >> :
      i \in { n \in 1..(Len(key) - 1) :
                /\ \A k \in 1..n : key[k] \in ClassifierWord \cup { "-" }
                /\ key[n + 1] = "/" } }

\* The part of a name before its first slash.
BeforeSlash(name) ==
  SubSeq(name, 1,
         (CHOOSE i \in 1..Len(name) :
            name[i] = "/" /\ \A j \in 1..(i - 1) : name[j] # "/") - 1)

\* Every key <id>/<path> is classified as legacy with (id, path) recovered.
LegacyRecovered ==
  classifier.pc \in { "classified", "listed", "done" } =>
    \A t \in LegacyReadings(classifier.key) :
      /\ classifier.found.kind = "legacy"
      /\ << classifier.found.video_id, classifier.found.relative_path >> = t

\* No key <id>.<fmt>/<path> is classified as legacy.
CurrentNeverLegacy ==
  (classifier.pc \in { "classified", "listed", "done" }
     /\ CurrentReadings(classifier.key) # {}) =>
    classifier.found.kind # "legacy"

\* list_legacy_mp4_videos returns the ids of the keys that
\* list_converted_formats counts as legacy.
LegacyListingsAgree ==
  classifier.pc = "done" =>
    classifier.legacy_mp4_videos =
      { BeforeSlash(name) : name \in classifier.legacy_counted }

\* C12: every key <id>/<path> with no dot before the first slash is
\* classified as legacy, never as current-style or unrecognized, with
\* (id, path) recovered; no current-style key is classified as legacy; and
\* list_legacy_mp4_videos returns exactly the ids of the keys that
\* list_converted_formats counts as legacy.
C12_LegacyClassification ==
  LegacyRecovered /\ CurrentNeverLegacy /\ LegacyListingsAgree

\* The mapping from every video id of which the bucket holds a current-style
\* key to the formats of these keys.
FormatsHeld ==
  [ id \in { v \in KnownIds : PresentFormats(v) # {} } |-> PresentFormats(id) ]

\* C13: list_converted_formats returns the mapping that holds format f under
\* video id v if and only if a listed key is current-style with id v and
\* format f; legacy and unrecognized keys contribute no id and no format,
\* and the call does not fail on them.
C13_ConvertedFormats ==
  [][ inventory.pc = "start" =>
        /\ inventory'.pc = "loop"
        /\ inventory'.converted_formats = FormatsHeld ]_vars

\* The inventory was taken of a bucket that holds a current-style key and a
\* key that is not current-style.
C13_Witness ==
  /\ inventory.pc = "loop"
  /\ DOMAIN inventory.converted_formats # {}
  /\ \E k \in DOMAIN converted_bucket :
       \A v \in KnownIds, f \in KnownFormats : ~IsObjectOf(k, v, f)

\* The legacy keys of the migrated video that the bucket held at first.
LegacySources ==
  { k \in DOMAIN migration.before :
      StartsWith(k, migration.youtube_id \o << "/" >>) }

\* <id>.mp4/<path> for the legacy key k = <id>/<path>.
NewName(k) ==
  migration.youtube_id \o << ".", "m", "p", "4", "/" >>
    \o SubSeq(k, Len(migration.youtube_id) + 2, Len(k))

\* C14: after copy_legacy_content_to_new_location(id), for every object
\* that was stored under a legacy key <id>/<path> the bucket holds
\* <id>.mp4/<path> with the same content; every legacy source object is
\* still there with its content; no key outside <id>.mp4/ was created or
\* modified; a second run leaves the bucket as the first left it.
C14_CopyNotMove ==
  migration.pc = "done" =>
    /\ \A k \in LegacySources :
         /\ NewName(k) \in DOMAIN stored
         /\ stored[NewName(k)] = migration.before[k]
         /\ k \in DOMAIN stored /\ stored[k] = migration.before[k]
    /\ \A k \in DOMAIN stored :
         ~StartsWith(k, migration.youtube_id \o << ".", "m", "p", "4", "/" >>)
           => /\ k \in DOMAIN migration.before
              /\ stored[k] = migration.before[k]
              /\ converted_bucket[k] = [hour |-> 1, minute |-> 0]
    /\ migration.calls = 2 => migration.after[2] = migration.after[1]

\* The objects of the archive in the destination bucket of run r.
ArchiveIn(r) ==
  { o \in archive :
      o.bucket = << "K", "A", "-", "c", "o", "n", "v", "e", "r", "t",
                    "e", "d", "-" >> \o run[r].youtube_id }

\* What the puts of run r alone leave in an archive that was empty: for
\* every name, the object of the last put under that name.
LastPushes(r) ==
  { [bucket |-> run[r].pushed[i].bucket, name |-> run[r].pushed[i].name,
     source |-> run[r].pushed[i].source] :
      i \in { n \in 1..Len(run[r].pushed) :
                \A m \in (n + 1)..Len(run[r].pushed) :
                  run[r].pushed[m].name # run[r].pushed[n].name } }

\* The destination objects of every run are those of its own puts, every
\* object of the archive is in the bucket of a run, and the result of every
\* run is the one the source listing determines for a run on its own.
RunsAsAlone ==
  /\ \A r \in Runs : ArchiveIn(r) = LastPushes(r) /\ PushesWellFormed(r)
  /\ \A o \in archive : \E r \in Runs : o \in ArchiveIn(r)
  /\ C1_SuccessOnlyWhenComplete
  /\ C3_SourceMissingOrEarlierAbort
  /\ C8_TransferSelection

\* A step of one run changes neither the other run nor the other run's
\* destination bucket, and no step changes the source bucket.
StepsIsolated ==
  /\ \A r \in Runs :
       run'[r] # run[r] =>
         \A s \in Runs \ { r } :
           run'[s] = run[s] /\ ArchiveIn(s)' = ArchiveIn(s)
  /\ converted_bucket' = converted_bucket
  /\ stored' = stored

\* C15: when two runs for different video ids are interleaved, each writes
\* only to its own bucket KA-converted-<its id>, neither writes to or
\* deletes from the source bucket, and the result and the destination
\* objects of each are those of the run on its own.
C15_ConcurrentRunsIsolated == []RunsAsAlone /\ [][StepsIsolated]_vars

\* Two runs for different video ids have both uploaded and returned True.
C15_Witness ==
  /\ run[1].youtube_id # run[2].youtube_id
  /\ \A r \in Runs : run[r].result = "Success" /\ ArchiveIn(r) # {}

\* C16: only an error of the transient class is followed by another attempt
\* of the put; a put that fails with any other error ends the run at once
\* with that error: that put is not retried, no later object is put, and
\* there is no wait and no verification.
C16_OnlyTransientRetried ==
  \A r \in Runs :
    /\ run[r].pc = "put" =>
         /\ run[r].put_error \in { "None", "BotoServerError" }
         /\ run[r].attempt > 0 <=> run[r].put_error = "BotoServerError"
    /\ run[r].result = "OtherError" <=> run[r].put_error = "OtherError"
    /\ run[r].put_error = "OtherError" =>
         /\ Ended(r)
         /\ ~ENABLED RunStep(r)
         /\ \A i \in 1..Len(run[r].pushed) :
              run[r].pushed[i].source # CurrentKey(run[r]).name
         /\ Len(run[r].pushed) = Len(run[r].uploaded_filenames)
         /\ run[r].head_calls = 0 /\ run[r].verified = << >>
         /\ ~HasStage(r, "propagation") /\ ~HasStage(r, "verification")

\* The put of the second object failed with an error that is not transient,
\* after a transient failure of the same put.
C16_Witness ==
  \E r \in Runs :
    /\ run[r].result = "OtherError"
    /\ run[r].attempt = 1
    /\ Len(run[r].uploaded_filenames) = 1

\* The age of the object in minutes: now (03:00) minus its last-modified
\* time; negative for a time in the future.
Age(k) == 3 * 60 - (converted_bucket[k].hour * 60 + converted_bucket[k].minute)

\* The run has decided on the readiness of the objects: it has ended or it
\* is past the discovery loop.
Decided(r) ==
  \/ Ended(r)
  \/ HasStage(r, "transfer")
  \/ run[r].pc = "discover" /\ run[r].key_index > Len(run[r].listing)

\* C17: an object is ready if and only if its age is not below one hour:
\* the run is blocked exactly if an object of the video is younger than 60
\* minutes; modified now or in the future it is not ready, modified two
\* hours ago or exactly one hour ago it is ready.
C17_ReadinessPredicate ==
  \A r \in Runs :
    (Started(r) /\ Decided(r)) =>
      /\ run[r].result = "ReadinessBlocked" <=>
           \E k \in ObjectsOf(run[r].youtube_id) : Age(k) < 60
      /\ \A k \in ObjectsOf(run[r].youtube_id) :
           /\ Age(k) = 60 => run[r].result # "ReadinessBlocked"
           /\ Age(k) = 120 => run[r].result # "ReadinessBlocked"
           /\ Age(k) = 59 => run[r].result = "ReadinessBlocked"
           /\ Age(k) <= 0 => run[r].result = "ReadinessBlocked"

\* An object modified exactly one hour ago was found ready and fetched.
C17_Witness ==
  \E r \in Runs :
    /\ run[r].fetched = 1
    /\ \E k \in ObjectsOf(run[r].youtube_id) : Age(k) = 60

\* C18 as stated: a run that reached the verification stage has, when it
\* ends, called verify_archive_upload exactly once for each uploaded object.
C18_EveryObjectVerifiedOnce ==
  \A r \in Runs :
    (Ended(r) /\ HasStage(r, "verification")) =>
      run[r].verify_calls = run[r].uploaded_filenames

\* C18 as amended: verify_archive_upload is called at most once per uploaded
\* object, in upload order and only after the wait; the calls stop at the
\* first one that does not return True (it returns False or raises), so the
\* objects uploaded after that one are not verified; a run in which every
\* call returns True has called it exactly once for each uploaded object.
C18_VerifiedUntilFirstFailure ==
  \A r \in Runs :
    /\ Len(run[r].verify_calls) <= Len(run[r].uploaded_filenames)
    /\ run[r].verify_calls =
         SubSeq(run[r].uploaded_filenames, 1, Len(run[r].verify_calls))
    /\ run[r].verify_calls # << >> => HasStage(r, "propagation")
    /\ run[r].verified =
         SubSeq(run[r].verify_calls, 1, Len(run[r].verified))
    /\ Len(run[r].verify_calls) - Len(run[r].verified) \in { 0, 1 }
    /\ run[r].result = "Success" =>
         run[r].verify_calls = run[r].uploaded_filenames
    /\ (Ended(r) /\ run[r].verify_calls # run[r].uploaded_filenames) =>
         /\ run[r].result # "Success"
         /\ run[r].verify_calls # << >> =>
              /\ run[r].result \in { "VerificationFailed", "URLError" }
              /\ Len(run[r].verified) = Len(run[r].verify_calls) - 1

\* Two objects were uploaded; the check of the first failed and the run
\* ended without a call for the second.
C18_Witness ==
  \E r \in Runs :
    /\ run[r].result = "VerificationFailed"
    /\ Len(run[r].uploaded_filenames) = 2
    /\ Len(run[r].verify_calls) = 1

\* The key is current-style: <id>.<format>/<path> for some id and format.
CurrentStyle(k) == \E v \in KnownIds, f \in KnownFormats : IsObjectOf(k, v, f)

\* C19: every current-style key that the listing by the prefix V returns
\* has video id exactly V, so the assertion of the discovery loop never
\* fails: keys of another video whose id starts with V neither abort the
\* run for V nor are they transferred.
C19_DiscoveryAssertionHolds ==
  \A r \in Runs :
    /\ \A i \in 1..Len(run[r].listing) :
         CurrentStyle(run[r].listing[i].name) =>
           \E f \in KnownFormats :
             IsObjectOf(run[r].listing[i].name, run[r].youtube_id, f)
    /\ ~(run[r].result = "AssertionError" /\ ~HasStage(r, "transfer"))
    /\ PushedSources(r) \subseteq ObjectsOf(run[r].youtube_id)

\* C20: in one run, distinct transferred source objects have distinct
\* destination names: the uploaded names have no duplicates, the object of
\* every put of the run is still in the archive (none was overwritten by a
\* later put), and no destination name holds a "/".
C20_NoOverwriteInRun ==
  \A r \in Runs :
    /\ \A i, j \in 1..Len(run[r].uploaded_filenames) :
         i # j => run[r].uploaded_filenames[i] # run[r].uploaded_filenames[j]
    /\ \A i, j \in 1..Len(run[r].pushed) :
         i # j => run[r].pushed[i].name # run[r].pushed[j].name
    /\ \A i \in 1..Len(run[r].pushed) :
         /\ [bucket |-> run[r].pushed[i].bucket,
             name |-> run[r].pushed[i].name,
             source |-> run[r].pushed[i].source] \in archive
         /\ \A k \in 1..Len(run[r].pushed[i].name) :
              run[r].pushed[i].name[k] # "/"

====
